---- MODULE Spec2Model ----
(***************************************************************************)
(* Model of pymdownx/blocks/caption.py: the Caption block (on_validate,    *)
(* on_create, on_end), update_tag and CaptionTreeprocessor.run.            *)
(*                                                                         *)
(* A Python str is a sequence of fragments.  Every fragment is a single    *)
(* character, except a type name, a fixed literal of the source ("__",     *)
(* "caption-prefix", the pieces of a prefix template) or a text written by *)
(* the host, which are one fragment each.  An ElementTree element is a     *)
(* node number; tag, children, attrib, text and tail are functions of it.  *)
(***************************************************************************)
EXTENDS Integers, Sequences, FiniteSets, TLC

\* Number of elements the host and the blocks may create while building.
MaxNodes == 6

\* Most calls of run on one document.
MaxPasses == 2

\* Longest block argument drawn when on_validate is exercised on its own.
MaxArgLen == 4

\* Most elements in the document before the block with such an argument.
MaxBefore == 1

----------------------------------------------------------------------------
(* Strings *)

None == <<"<None>">>

DigitChars == {"0", "1", "2", "3", "4", "5", "6", "7", "8", "9"}

IsDigit(c) == c \in DigitChars

IsNonZeroDigit(c) == c \in DigitChars \ {"0"}

DigitVal(c) ==
    CASE c = "0" -> 0 [] c = "1" -> 1 [] c = "2" -> 2 [] c = "3" -> 3
      [] c = "4" -> 4 [] c = "5" -> 5 [] c = "6" -> 6 [] c = "7" -> 7
      [] c = "8" -> 8 [] c = "9" -> 9

DigitChar(d) ==
    CASE d = 0 -> "0" [] d = 1 -> "1" [] d = 2 -> "2" [] d = 3 -> "3"
      [] d = 4 -> "4" [] d = 5 -> "5" [] d = 6 -> "6" [] d = 7 -> "7"
      [] d = 8 -> "8" [] d = 9 -> "9"

\* str(n) for n >= 0
RECURSIVE IntToStr(_)
IntToStr(n) ==
    IF n < 10 THEN <<DigitChar(n)>>
    ELSE IntToStr(n \div 10) \o <<DigitChar(n % 10)>>

\* int(s): the value, or -1 where Python raises ValueError
RECURSIVE DigitsValue(_, _)
DigitsValue(s, acc) ==
    IF s = <<>> THEN acc
    ELSE DigitsValue(Tail(s), 10 * acc + DigitVal(Head(s)))

StrToInt(s) ==
    IF s # <<>> /\ \A i \in 1..Len(s) : IsDigit(s[i])
    THEN DigitsValue(s, 0)
    ELSE -1

\* s.lstrip()
RECURSIVE LStrip(_)
LStrip(s) ==
    IF s # <<>> /\ Head(s) = " " THEN LStrip(Tail(s)) ELSE s

\* s.split(sep): the pieces of s between the occurrences of sep.  The pieces
\* of a string are those of its two halves, the last piece of the first half
\* joined to the first piece of the second.
RECURSIVE Split(_, _)
Split(s, sep) ==
    IF Len(s) <= 1 THEN (IF s = <<sep>> THEN <<(<<>>), (<<>>)>> ELSE <<s>>)
    ELSE LET h == Len(s) \div 2
             a == Split(SubSeq(s, 1, h), sep)
             b == Split(SubSeq(s, h + 1, Len(s)), sep)
         IN  SubSeq(a, 1, Len(a) - 1) \o <<a[Len(a)] \o b[1]>> \o Tail(b)

\* sep.join(parts)
RECURSIVE Join(_, _)
Join(parts, sep) ==
    IF parts = <<>> THEN <<>>
    ELSE IF Len(parts) = 1 THEN parts[1]
    ELSE LET h == Len(parts) \div 2
         IN  Join(SubSeq(parts, 1, h), sep) \o <<sep>>
             \o Join(SubSeq(parts, h + 1, Len(parts)), sep)

\* '.'.join(str(x) for x in counter)
Dotted(counter) == Join([i \in 1..Len(counter) |-> IntToStr(counter[i])], ".")

----------------------------------------------------------------------------
\* RE_FIG_NUM: an optional caret, then a run of digits that starts with a
\* non-zero digit, then any number of groups of one arbitrary character and
\* such a run, then a lookahead for a space or the end; matched by
\* backtracking.  Offsets count the characters consumed; -1 is no match.

\* the offset after the longest run of digits starting at offset i
RECURSIVE DigitRunEnd(_, _)
DigitRunEnd(s, i) ==
    IF i < Len(s) /\ IsDigit(s[i + 1]) THEN DigitRunEnd(s, i + 1) ELSE i

\* the lookahead at offset j
LookAhead(s, j) == j = Len(s) \/ s[j + 1] = " "

RECURSIVE StarFrom(_, _)
RECURSIVE TryRuns(_, _, _)

\* the groups, then the lookahead, after a digit run ending at offset j:
\* one more group first (greedy), and zero groups when that fails
StarFrom(s, j) ==
    LET viaGroup == IF j + 2 <= Len(s) /\ IsNonZeroDigit(s[j + 2])
                    THEN TryRuns(s, j + 2, DigitRunEnd(s, j + 2))
                    ELSE -1
    IN  IF viaGroup # -1 THEN viaGroup
        ELSE IF LookAhead(s, j) THEN j
        ELSE -1

\* the digits of a run are greedy: the run ends at k, then at k - 1, ... down to lo
TryRuns(s, lo, k) ==
    IF k < lo THEN -1
    ELSE LET r == StarFrom(s, k)
         IN  IF r # -1 THEN r ELSE TryRuns(s, lo, k - 1)

\* group 2 from offset i
Group2End(s, i) ==
    IF i + 1 <= Len(s) /\ IsNonZeroDigit(s[i + 1])
    THEN TryRuns(s, i + 1, DigitRunEnd(s, i + 1))
    ELSE -1

\* RE_FIG_NUM.match(s): [matched, caret (group 1), num (group 2), end]
RE_FIG_NUM(s) ==
    LET withCaret == IF s # <<>> /\ s[1] = "^" THEN Group2End(s, 1) ELSE -1
        without   == Group2End(s, 0)
    IN  IF withCaret # -1
        THEN [matched |-> TRUE, caret |-> TRUE,
              num |-> SubSeq(s, 2, withCaret), end |-> withCaret]
        ELSE IF without # -1
        THEN [matched |-> TRUE, caret |-> FALSE,
              num |-> SubSeq(s, 1, without), end |-> without]
        ELSE [matched |-> FALSE, caret |-> FALSE, num |-> <<>>, end |-> 0]

----------------------------------------------------------------------------
(* Configuration *)

\* CaptionExtension.config["types"] as extendMarkdownBlocks registers it:
\* type name -> prefix template; "{}" is the insertion point of str.format
fig_types ==
    [k \in {"caption", "figure-caption", "table-caption"} |->
        CASE k = "caption" -> <<>>
          [] k = "figure-caption" -> <<"Figure ", "{}", ".">>
          [] k = "table-caption" -> <<"Table ", "{}", ".">>]

\* template.format(fig_num)
RECURSIVE Format(_, _)
Format(template, fig_num) ==
    IF template = <<>> THEN <<>>
    ELSE (IF Head(template) = "{}" THEN fig_num ELSE <<Head(template)>>)
         \o Format(Tail(template), fig_num)

\* the values of auto_level the configurations are drawn from
AutoLevels == {0, 1, 2}

\* config as CaptionTreeprocessor.__init__ and Caption.on_init read it
Configs ==
    [auto : BOOLEAN, prepend : BOOLEAN, auto_level : AutoLevels]

----------------------------------------------------------------------------
(* State *)

VARIABLES
    config,     \* the extension's configuration
    tag,        \* element -> tag name ("" for a number not yet an element)
    children,   \* element -> sequence of its child elements
    attrib,     \* element -> its attributes: a function of the names present
    text,       \* element -> text (None or a str)
    tail,       \* element -> tail (None or a str)
    nnodes,     \* number of elements created so far; they are 1..nnodes
    pending,    \* the Caption block validated and not yet created, or NoBlock
    stack,      \* the open containers, innermost last
    pc,         \* "build", "run" (the treeprocessor's loop), "done", "error"
    run,        \* the locals of CaptionTreeprocessor.run
    numbered,   \* element -> the counter[:stack + 1] update_tag was called with
    attrib0,    \* the attributes of the elements of doc when run was called
    passes      \* number of calls of run so far

vars == <<config, tag, children, attrib, text, tail, nnodes, pending, stack,
          pc, run, numbered, attrib0, passes>>

tree == <<tag, children, attrib, text, tail, nnodes>>

Root == 0

\* a prefix adds at most a p and a span to each figcaption
Nodes == 0..(3 * MaxNodes)

NoBlock == [NAME |-> "<none>"]

NoAttrib == [k \in {} |-> <<>>]

\* d with d[key] = value
SetKey(d, key, value) ==
    [k \in DOMAIN d \cup {key} |-> IF k = key THEN value ELSE d[k]]

\* d after del d[key]
DelKey(d, key) == [k \in DOMAIN d \ {key} |-> d[k]]

Last(s) == s[Len(s)]

\* list.insert(0, x)
Insert0(s, x) == <<x>> \o s

\* list.remove(x): without the first occurrence of x
RECURSIVE Remove(_, _)
Remove(s, x) ==
    IF s = <<>> THEN <<>>
    ELSE IF Head(s) = x THEN Tail(s)
    ELSE <<Head(s)>> \o Remove(Tail(s), x)

NoRun ==
    [el |-> -1, parent_map |-> [n \in {} |-> 0], last |-> [k \in {} |-> 0],
     counters |-> [k \in {} |-> <<>>], fig_type |-> "", last_type |-> "",
     figs |-> <<>>]

InitWith(cfgs) ==
    /\ config \in cfgs
    /\ tag = [n \in Nodes |-> IF n = Root THEN "div" ELSE ""]
    /\ children = [n \in Nodes |-> <<>>]
    /\ attrib = [n \in Nodes |-> NoAttrib]
    /\ text = [n \in Nodes |-> None]
    /\ tail = [n \in Nodes |-> None]
    /\ nnodes = 0
    /\ pending = NoBlock
    /\ stack = <<>>
    /\ pc = "build"
    /\ run = NoRun
    /\ numbered = [n \in Nodes |-> <<>>]
    /\ attrib0 = [n \in Nodes |-> NoAttrib]
    /\ passes = 0

----------------------------------------------------------------------------
(* Caption.on_init and Caption.on_validate *)

\* the fields on_init sets on a new block of the class registered for NAME
on_init(NAME) ==
    [NAME |-> NAME, auto |-> config.auto, prepend |-> config.prepend,
     caption |-> -1, fig_num |-> <<>>, level |-> <<>>, valid |-> FALSE,
     el |-> -1]

\* PrependOf without the marker for the end
PrependOfNoEnd(argument, prepend) ==
    IF argument # <<>> /\ Head(argument) = "<" THEN TRUE ELSE prepend

\* self.prepend after the direction marker of the argument, if any
PrependOf(argument, prepend) ==
    IF argument # <<>> /\ Head(argument) = ">" THEN FALSE
    ELSE IF argument # <<>> /\ Head(argument) = "<" THEN TRUE
    ELSE prepend

\* the block's fields after on_validate on self.argument, which the host has
\* set, with the value on_validate returns in valid
on_validate(self, argument) ==
    LET a0 == argument
        hasGt == a0 # <<>> /\ Head(a0) = ">"
        hasLt == a0 # <<>> /\ Head(a0) = "<"
        a1 == IF hasGt \/ hasLt THEN LStrip(Tail(a0)) ELSE a0
        m  == RE_FIG_NUM(a1)
        a2 == IF a0 # <<>> /\ m.matched
              THEN LStrip(SubSeq(a1, m.end + 1, Len(a1)))
              ELSE a1
    IN  [self EXCEPT
            !.prepend = PrependOf(a0, self.prepend),
            !.level = IF a0 # <<>> /\ m.matched /\ m.caret THEN m.num ELSE @,
            !.fig_num = IF a0 # <<>> /\ m.matched /\ ~m.caret THEN m.num ELSE @,
            !.valid = (a2 = <<>>)]

----------------------------------------------------------------------------
(* update_tag *)

\* the tree as one value, so that the statements of a handler compose
Tree ==
    [tag |-> tag, children |-> children, attrib |-> attrib, text |-> text,
     tail |-> tail, nnodes |-> nnodes]

\* the body of update_tag's loop for a figcaption child: the prefix span goes
\* into a new leading p, or in front of the text of the p already leading
InsertPrefix(T, child, value) ==
    LET kids == T.children[child]
    IN  IF Len(kids) = 0 \/ T.tag[kids[1]] # "p"
        THEN LET p == T.nnodes + 1
                 span == T.nnodes + 2
             IN  [T EXCEPT
                    !.nnodes = T.nnodes + 2,
                    !.tag = [@ EXCEPT ![p] = "p", ![span] = "span"],
                    !.attrib = [@ EXCEPT ![span] =
                                   SetKey(NoAttrib, "class", <<"caption-prefix">>)],
                    !.children = [@ EXCEPT ![p] = <<span>>,
                                           ![child] = Insert0(kids, p)],
                    !.text = [@ EXCEPT ![span] = value, ![child] = None],
                    !.tail = [@ EXCEPT ![p] = T.text[child]]]
        ELSE LET p == kids[1]
                 span == T.nnodes + 1
             IN  [T EXCEPT
                    !.nnodes = T.nnodes + 1,
                    !.tag = [@ EXCEPT ![span] = "span"],
                    !.attrib = [@ EXCEPT ![span] =
                                   SetKey(NoAttrib, "class", <<"caption-prefix">>)],
                    !.children = [@ EXCEPT ![p] = Insert0(T.children[p], span)],
                    !.text = [@ EXCEPT ![span] = value, ![p] = None],
                    !.tail = [@ EXCEPT ![span] =
                                 IF T.text[p] # None THEN <<" ">> \o T.text[p]
                                 ELSE T.text[p]]]

Reverse(s) == [i \in 1..Len(s) |-> s[Len(s) + 1 - i]]

\* the loop of update_tag over the children in scan order
RECURSIVE PrefixLoop(_, _, _)
PrefixLoop(T, kids, value) ==
    IF kids = <<>> THEN T
    ELSE PrefixLoop(IF T.tag[Head(kids)] = "figcaption"
                    THEN InsertPrefix(T, Head(kids), value)
                    ELSE T,
                    Tail(kids), value)

\* update_tag with the id set whether el has one or not
update_tagNewId(T, el, fig_type, fig_num, template, prepend) ==
    LET T1 == [T EXCEPT !.attrib[el] =
                 SetKey(@, "id",
                        <<"__", fig_type, "_">>
                        \o Join(Split(fig_num, "."), "_"))]
    IN  IF template # <<>>
        THEN PrefixLoop(T1,
                        IF prepend THEN T1.children[el]
                        ELSE Reverse(T1.children[el]),
                        Format(template, fig_num))
        ELSE T1

\* update_tag with the dots of fig_num kept in the id
update_tagDots(T, el, fig_type, fig_num, template, prepend) ==
    LET T1 == IF "id" \in DOMAIN T.attrib[el] THEN T
              ELSE [T EXCEPT !.attrib[el] =
                       SetKey(@, "id", <<"__", fig_type, "_">> \o fig_num)]
    IN  IF template # <<>>
        THEN PrefixLoop(T1,
                        IF prepend THEN T1.children[el]
                        ELSE Reverse(T1.children[el]),
                        Format(template, fig_num))
        ELSE T1

\* update_tag(el, fig_type, fig_num, template, prepend); fig_num is the str
update_tag(T, el, fig_type, fig_num, template, prepend) ==
    LET T1 == IF "id" \in DOMAIN T.attrib[el] THEN T
              ELSE [T EXCEPT !.attrib[el] =
                       SetKey(@, "id",
                              <<"__", fig_type, "_">>
                              \o Join(Split(fig_num, "."), "_"))]
    IN  IF template # <<>>
        THEN PrefixLoop(T1,
                        IF prepend THEN T1.children[el]
                        ELSE Reverse(T1.children[el]),
                        Format(template, fig_num))
        ELSE T1

----------------------------------------------------------------------------
(* Caption.on_create, Caption.on_add, Caption.on_end *)

\* Reusable without the look for a figcaption
ReusableFigure(T, child) == child # -1 /\ T.tag[child] = "figure"

\* whether on_create takes the last child as the figure: a figure with no
\* figcaption among its children
Reusable(T, child) ==
    /\ child # -1
    /\ T.tag[child] = "figure"
    /\ \A i \in 1..Len(T.children[child]) :
          T.tag[T.children[child][i]] # "figcaption"

\* the children of the figure with the caption added
InsertCaption(kids, caption, prepend) ==
    IF prepend THEN Insert0(kids, caption) ELSE Append(kids, caption)

\* on_create(parent): the tree afterwards, the block's fields and the figure
on_create(T, self, parent) ==
    LET kids == T.children[parent]
        child == IF kids # <<>> THEN Last(kids) ELSE -1
        reuse == Reusable(T, child)
        fig == IF reuse THEN child ELSE T.nnodes + 1
        \* a new figure in last position, the former last child moved into it
        T1 == IF reuse THEN T
              ELSE [T EXCEPT
                      !.nnodes = T.nnodes + 1,
                      !.tag[fig] = "figure",
                      !.children =
                          [@ EXCEPT
                             ![fig] = IF child # -1 THEN <<child>> ELSE <<>>,
                             ![parent] =
                                 IF child # -1
                                 THEN Remove(Append(kids, fig), child)
                                 ELSE Append(kids, fig)]]
        a1 == IF self.auto
              THEN SetKey(T1.attrib[fig], "__figure_type", <<self.NAME>>)
              ELSE T1.attrib[fig]
        a2 == IF self.auto /\ self.level # <<>>
              THEN SetKey(a1, "__figure_level", self.level) ELSE a1
        a3 == IF self.auto /\ self.fig_num # <<>>
              THEN SetKey(a2, "__figure_num", self.fig_num) ELSE a2
        a4 == IF self.prepend /\ self.auto
              THEN SetKey(a3, "__figure_prepend", <<"1">>) ELSE a3
        caption == T1.nnodes + 1
        T2 == [T1 EXCEPT
                 !.nnodes = T1.nnodes + 1,
                 !.tag[caption] = "figcaption",
                 !.attrib[fig] = a4,
                 !.children[fig] = InsertCaption(@, caption, self.prepend)]
    IN  [T |-> T2, self |-> [self EXCEPT !.caption = caption, !.el = fig],
         fig |-> fig]

\* on_add(block): the container of the block's content
on_add(self) == self.caption

\* on_end(block): the tree afterwards
on_end(T, self, block) ==
    LET prefix == fig_types[self.NAME]
        fig_num == IF self.level # <<>>
                   THEN Join([i \in 1..StrToInt(self.level) |-> <<"1">>], ".")
                   ELSE self.fig_num
    IN  IF prefix # <<>> /\ ~self.auto /\ fig_num # <<>>
        THEN update_tag(T, block, self.NAME, fig_num, prefix, self.prepend)
        ELSE T

----------------------------------------------------------------------------
(* CaptionTreeprocessor.run *)

\* doc.iter(): the elements in document order
RECURSIVE IterFrom(_, _)
RECURSIVE IterAll(_, _)
IterFrom(T, el) == <<el>> \o IterAll(T, T.children[el])

IterAll(T, els) ==
    IF els = <<>> THEN <<>>
    ELSE IterFrom(T, Head(els)) \o IterAll(T, Tail(els))

\* the element the iterator yields after el, or -1 when it is exhausted
NextEl(T, el) ==
    LET order == IterFrom(T, Root)
        i == CHOOSE k \in 1..Len(order) : order[k] = el
    IN  IF i < Len(order) THEN order[i + 1] ELSE -1

\* parent_map = {c: p for p in doc.iter() for c in p}
ParentMap(T) ==
    LET order == IterFrom(T, Root)
        els == {order[i] : i \in 1..Len(order)}
        kid(p, c) == \E i \in 1..Len(T.children[p]) : T.children[p][i] = c
    IN  [c \in {x \in els : \E p \in els : kid(p, x)} |->
            CHOOSE p \in els : kid(p, c)]

\* [int(x) for x in s.split('.')], or <<-1>> where int raises ValueError
IntList(s) ==
    LET parts == Split(s, ".")
        vals == [i \in 1..Len(parts) |-> StrToInt(parts[i])]
    IN  IF \E i \in 1..Len(vals) : vals[i] = -1 THEN <<-1>> ELSE vals

\* AtCeiling for the depth of the ceiling alone
AtCeilingExact(auto_level, stk) == auto_level # 0 /\ stk = auto_level

\* AtCeiling one level late
AtCeilingLate(auto_level, stk) == auto_level # 0 /\ stk > auto_level

\* the ceiling test on the depth reached while climbing
AtCeiling(auto_level, stk) == auto_level # 0 /\ stk >= auto_level

\* The while loop that climbs the ancestors of el, entered at `current` with
\* the running depth stk.  level: whether el's __figure_level is to be set to
\* str(stack + 1); skip: the ceiling was met; err: an exception was raised.
RECURSIVE Climb(_, _, _, _, _, _)
Climb(T, parent_map, auto_level, fig_type, current, stk) ==
    IF current \notin DOMAIN parent_map
    THEN [stack |-> stk, level |-> FALSE, skip |-> FALSE, err |-> FALSE]
    ELSE LET parent == parent_map[current]
         IN  IF T.tag[parent] # "figure"
             THEN Climb(T, parent_map, auto_level, fig_type, parent, stk)
             ELSE IF "__figure_type" \notin DOMAIN T.attrib[parent]
             THEN [stack |-> stk, level |-> FALSE, skip |-> FALSE, err |-> TRUE]
             ELSE IF T.attrib[parent]["__figure_type"] # fig_type
             THEN Climb(T, parent_map, auto_level, fig_type, parent, stk)
             ELSE LET level == "__figure_level" \in DOMAIN T.attrib[parent]
                      n == IF level
                           THEN StrToInt(T.attrib[parent]["__figure_level"])
                           ELSE 0
                      stk1 == IF level THEN stk + n + 1 ELSE stk + 1
                  IN  IF level /\ n = -1
                      THEN [stack |-> stk, level |-> FALSE, skip |-> FALSE,
                            err |-> TRUE]
                      ELSE IF AtCeiling(auto_level, stk1)
                      THEN [stack |-> stk1, level |-> level, skip |-> TRUE,
                            err |-> FALSE]
                      ELSE IF level
                      THEN [stack |-> stk1, level |-> TRUE, skip |-> FALSE,
                            err |-> FALSE]
                      ELSE Climb(T, parent_map, auto_level, fig_type, parent, stk1)

\* IncrementCounter without the cut after a return to a shallower depth
IncrementCounterNoCut(counter, l, stk) ==
    IF stk > l THEN counter \o [i \in 1..(stk - l) |-> 1]
    ELSE IF stk = l
    THEN IF stk + 1 <= Len(counter)
         THEN [counter EXCEPT ![stk + 1] = @ + 1]
         ELSE <<>>
    ELSE IF counter = <<>> THEN <<>>
         ELSE [counter EXCEPT ![Len(counter)] = @ + 1]

\* IncrementCounter without the increment after a return to a shallower depth
IncrementCounterNoBump(counter, l, stk) ==
    IF stk > l THEN counter \o [i \in 1..(stk - l) |-> 1]
    ELSE IF stk = l
    THEN IF stk + 1 <= Len(counter)
         THEN [counter EXCEPT ![stk + 1] = @ + 1]
         ELSE <<>>
    ELSE SubSeq(counter, 1, IF stk + 1 <= Len(counter)
                            THEN stk + 1 ELSE Len(counter))

\* the increment of the type's counter for a figure at depth stk, where l is
\* the type's last depth; <<>> where the list index is out of range
IncrementCounter(counter, l, stk) ==
    IF stk > l THEN counter \o [i \in 1..(stk - l) |-> 1]
    ELSE IF stk = l
    THEN IF stk + 1 <= Len(counter)
         THEN [counter EXCEPT ![stk + 1] = @ + 1]
         ELSE <<>>
    ELSE LET cut == SubSeq(counter, 1, IF stk + 1 <= Len(counter)
                                       THEN stk + 1 ELSE Len(counter))
         IN  IF cut = <<>> THEN <<>>
             ELSE [cut EXCEPT ![Len(cut)] = @ + 1]

Min(a, b) == IF a <= b THEN a ELSE b

\* AdoptManual taking the manual number over whatever the counter is
AdoptManualAlways(counter, fig_num) ==
    IF fig_num # <<>> THEN fig_num ELSE counter

\* the counter after the manual number fig_num (a list, <<>> for none): taken
\* over when no component of the counter exceeds it
AdoptManual(counter, fig_num) ==
    IF fig_num # <<>>
       /\ \A i \in 1..Min(Len(counter), Len(fig_num)) : counter[i] <= fig_num[i]
    THEN fig_num
    ELSE counter

\* Known without the test of the template
KnownRegistered(name) == name \in DOMAIN fig_types

\* whether figures of the type are numbered: the type is registered and has
\* a prefix template
Known(name) == name \in DOMAIN fig_types /\ fig_types[name] # <<>>

\* the ceiling test on the depth a level override gives
LevelCeiling(auto_level, stk) == auto_level # 0 /\ stk >= auto_level - 1

\* One iteration of the for loop of run over the element el.  The result is
\* the tree and the locals afterwards, the counter[:stack + 1] update_tag was
\* called with (<<>> when it was not called) and whether an exception ended
\* the pass.
LoopBody(T, r, auto_level, el) ==
    LET isFig == T.tag[el] = "figure"
        prepend == isFig /\ "__figure_prepend" \in DOMAIN T.attrib[el]
        T1 == IF prepend
              THEN [T EXCEPT !.attrib[el] = DelKey(@, "__figure_prepend")]
              ELSE T
        typed == isFig /\ "__figure_type" \in DOMAIN T.attrib[el]
        ftype == IF typed THEN T.attrib[el]["__figure_type"] ELSE <<>>
        name == IF typed THEN ftype[1]
                ELSE IF isFig THEN r.last_type ELSE r.fig_type
        r1 == [r EXCEPT !.fig_type = name,
                        !.figs = IF typed THEN Append(@, el) ELSE @]
        known == typed /\ Known(name)
        skipped(TT, rr) == [T |-> TT, run |-> rr, num |-> <<>>, err |-> FALSE]
        raised(TT, rr) == [T |-> TT, run |-> rr, num |-> <<>>, err |-> TRUE]
        \* the figure is numbered at depth stk; fig_num is the manual number
        number(TT, stk, fig_num) ==
            LET c1 == IncrementCounter(r1.counters[name], r1.last[name], stk)
                c2 == AdoptManual(c1, fig_num)
                num == SubSeq(c2, 1, Min(stk + 1, Len(c2)))
            IN  IF c1 = <<>> THEN raised(TT, r1)
                ELSE [T |-> update_tag(TT, el, name, Dotted(num),
                                       fig_types[name], prepend),
                      run |-> [r1 EXCEPT !.last[name] = stk,
                                         !.counters[name] = c2,
                                         !.last_type = name],
                      num |-> num, err |-> FALSE]
    IN  IF ~known THEN skipped(T1, r1)
        ELSE IF "__figure_num" \in DOMAIN T1.attrib[el]
        THEN LET fig_num == IntList(T1.attrib[el]["__figure_num"])
                 T2 == [T1 EXCEPT !.attrib[el] =
                           SetKey(DelKey(@, "__figure_num"), "__figure_level",
                                  IntToStr(Len(fig_num)))]
             IN  IF fig_num = <<-1>> THEN raised(T1, r1)
                 ELSE number(T2, Len(fig_num) - 1, fig_num)
        ELSE LET hasLevel == "__figure_level" \in DOMAIN T1.attrib[el]
                 lv == IF hasLevel THEN StrToInt(T1.attrib[el]["__figure_level"])
                       ELSE 0
                 stk0 == IF hasLevel THEN -1 + lv + 1 ELSE -1 + 1
                 c == Climb(T1, r1.parent_map, auto_level, ftype, el, stk0)
                 T2 == IF c.level
                       THEN [T1 EXCEPT !.attrib[el] =
                               SetKey(@, "__figure_level", IntToStr(c.stack + 1))]
                       ELSE T1
             IN  IF hasLevel /\ lv = -1 THEN raised(T1, r1)
                 ELSE IF hasLevel /\ LevelCeiling(auto_level, stk0)
                 THEN skipped(T1, r1)
                 ELSE IF c.err THEN raised(T1, r1)
                 ELSE IF c.skip THEN skipped(T2, r1)
                 ELSE number(T2, c.stack, <<>>)

\* the clean up left out
CleanUpNone(T, figs) == T

\* the clean up of the attributes after the loop
RECURSIVE CleanUp(_, _)
CleanUp(T, figs) ==
    IF figs = <<>> THEN T
    ELSE LET fig == Head(figs)
             a1 == DelKey(T.attrib[fig], "__figure_type")
             a2 == IF "__figure_level" \in DOMAIN a1
                   THEN DelKey(a1, "__figure_level") ELSE a1
         IN  CleanUp([T EXCEPT !.attrib[fig] = a2], Tail(figs))

----------------------------------------------------------------------------
(* Actions *)

SetTree(T) ==
    /\ tag' = T.tag
    /\ children' = T.children
    /\ attrib' = T.attrib
    /\ text' = T.text
    /\ tail' = T.tail
    /\ nnodes' = T.nnodes

\* the element that receives the next block or paragraph
Container == IF stack = <<>> THEN Root ELSE Last(stack).container

Idle == pc = "build" /\ pending.NAME = NoBlock.NAME

\* The host meets a block of the class registered for NAME, with the given
\* argument and `id` among its attributes (<<>> for none): on_init, on_validate.
OnValidate(NAME, argument, id) ==
    /\ Idle
    /\ nnodes + 2 <= MaxNodes
    /\ pending' = [NAME |-> NAME, argument |-> argument, id |-> id,
                   block |-> on_validate(on_init(NAME), argument)]
    /\ UNCHANGED <<config, tree, stack, pc, run, numbered, attrib0, passes>>

\* The host drops a block whose on_validate returned False.
Reject ==
    /\ pc = "build"
    /\ pending.NAME # NoBlock.NAME
    /\ ~pending.block.valid
    /\ pending' = NoBlock
    /\ UNCHANGED <<config, tree, stack, pc, run, numbered, attrib0, passes>>

\* The host creates a validated block under the current container: on_create,
\* then the block's attributes go to the element on_create returned; the
\* block's content will go to on_add's element.
OnCreate ==
    /\ pc = "build"
    /\ pending.NAME # NoBlock.NAME
    /\ pending.block.valid
    /\ LET c == on_create(Tree, pending.block, Container)
           T == IF pending.id # <<>>
                THEN [c.T EXCEPT !.attrib[c.fig] = SetKey(@, "id", pending.id)]
                ELSE c.T
       IN  /\ SetTree(T)
           /\ stack' = Append(stack, [kind |-> "block", block |-> c.self,
                                      el |-> c.fig, container |-> on_add(c.self)])
    /\ pending' = NoBlock
    /\ UNCHANGED <<config, pc, run, numbered, attrib0, passes>>

\* The host reaches the end of the innermost open block: on_end.
OnEnd ==
    /\ Idle
    /\ stack # <<>>
    /\ Last(stack).kind = "block"
    /\ LET self == Last(stack).block
           bad == /\ fig_types[self.NAME] # <<>>
                  /\ ~self.auto
                  /\ self.level # <<>>
                  /\ StrToInt(self.level) = -1
       IN  IF bad
           THEN pc' = "error" /\ UNCHANGED tree
           ELSE pc' = pc /\ SetTree(on_end(Tree, self, Last(stack).el))
    /\ stack' = SubSeq(stack, 1, Len(stack) - 1)
    /\ UNCHANGED <<config, pending, run, numbered, attrib0, passes>>

\* The host adds a paragraph to the current container.
AddParagraph ==
    /\ Idle
    /\ nnodes + 1 <= MaxNodes
    /\ LET p == nnodes + 1
       IN  /\ nnodes' = p
           /\ tag' = [tag EXCEPT ![p] = "p"]
           /\ text' = [text EXCEPT ![p] = <<"txt">>]
           /\ children' = [children EXCEPT ![Container] = Append(@, p)]
    /\ UNCHANGED <<config, attrib, tail, pending, stack, pc, run, numbered,
                   attrib0, passes>>

\* The host opens a figure written as raw HTML in the current container; the
\* content that follows goes into it.
OpenFigure ==
    /\ Idle
    /\ nnodes + 1 <= MaxNodes
    /\ LET f == nnodes + 1
       IN  /\ nnodes' = f
           /\ tag' = [tag EXCEPT ![f] = "figure"]
           /\ children' = [children EXCEPT ![Container] = Append(@, f)]
           /\ stack' = Append(stack, [kind |-> "raw", block |-> NoBlock,
                                      el |-> f, container |-> f])
    /\ UNCHANGED <<config, attrib, text, tail, pending, pc, run, numbered,
                   attrib0, passes>>

\* The raw figure ends.
CloseFigure ==
    /\ Idle
    /\ stack # <<>>
    /\ Last(stack).kind = "raw"
    /\ stack' = SubSeq(stack, 1, Len(stack) - 1)
    /\ UNCHANGED <<config, tree, pending, pc, run, numbered, attrib0, passes>>

\* the locals of run when its loop starts
Locals(T) ==
    [el |-> Root,
     parent_map |-> ParentMap(T),
     last |-> [k \in DOMAIN fig_types |-> 0],
     counters |-> [k \in DOMAIN fig_types |-> <<0>>],
     fig_type |-> "", last_type |-> "", figs |-> <<>>]

\* Markdown runs the treeprocessor, registered when auto is set, on the root.
StartRun ==
    /\ Idle
    /\ stack = <<>>
    /\ config.auto
    /\ pc' = "run"
    /\ run' = Locals(Tree)
    /\ attrib0' = attrib
    /\ passes' = 1
    /\ UNCHANGED <<config, tree, pending, stack, numbered>>

\* One iteration of the loop of run.
Visit ==
    /\ pc = "run"
    /\ run.el # -1
    /\ LET b == LoopBody(Tree, run, config.auto_level, run.el)
       IN  /\ SetTree(b.T)
           /\ numbered' = IF b.num # <<>>
                          THEN [numbered EXCEPT ![run.el] = b.num]
                          ELSE numbered
           /\ IF b.err
              THEN pc' = "error" /\ run' = b.run
              ELSE /\ pc' = pc
                   /\ run' = [b.run EXCEPT !.el = NextEl(b.T, run.el)]
    /\ UNCHANGED <<config, pending, stack, attrib0, passes>>

\* The loop is over: the clean up, and run returns.
Finish ==
    /\ pc = "run"
    /\ run.el = -1
    /\ SetTree(CleanUp(Tree, run.figs))
    /\ pc' = "done"
    /\ UNCHANGED <<config, pending, stack, run, numbered, attrib0, passes>>

----------------------------------------------------------------------------
(* Specifications *)

\* the blocks the host meets: class, argument and id attribute
Blocks ==
    { [NAME |-> "figure-caption", argument |-> a, id |-> <<>>] :
        a \in { <<>>, <<"3">>, <<"1", ".", "2">>, <<"^", "1">>, <<"x">> } }
    \cup { [NAME |-> "figure-caption", argument |-> <<>>, id |-> <<"myid">>] }
    \cup { [NAME |-> "table-caption", argument |-> a, id |-> <<>>] :
             a \in { <<"<">>, <<"2">> } }
    \cup { [NAME |-> "caption", argument |-> a, id |-> <<>>] :
             a \in { <<"5">>, <<"<", " ", "^", "1">> } }

\* the characters block arguments are made of
ArgChars == {"<", ">", "^", "0", "1", ".", " ", "x"}

\* the arguments of at most n characters
RECURSIVE Strings(_)
Strings(n) ==
    IF n = 0 THEN {<<>>}
    ELSE LET shorter == Strings(n - 1)
         IN  shorter \cup {Append(a, c) : a \in shorter, c \in ArgChars}

\* the host hands over the argument without the spaces around it
ArgStrings ==
    {a \in Strings(MaxArgLen) : a = <<>> \/ (Head(a) # " " /\ Last(a) # " ")}

Init == InitWith({c \in Configs : c.auto /\ ~c.prepend})

BuildWith(blocks) ==
    \/ \E b \in blocks : OnValidate(b.NAME, b.argument, b.id)
    \/ Reject
    \/ OnCreate
    \/ OnEnd
    \/ AddParagraph
    \/ OpenFigure
    \/ CloseFigure

Build == BuildWith(Blocks)

Next ==
    \/ Build
    \/ StartRun
    \/ Visit
    \/ Finish

Spec == Init /\ [][Next]_vars

\* The blocks alone, under every configuration of auto and prepend.
InitBind == InitWith({c \in Configs : c.auto_level = 0})

SpecBind == InitBind /\ [][Build]_vars

\* on_validate on every argument, for the first block of the document.
NextValidate ==
    \/ /\ Idle
       /\ \A n \in Nodes : tag[n] # "figcaption"
       /\ \E NAME \in DOMAIN fig_types, a \in ArgStrings :
             OnValidate(NAME, a, <<>>)
    \/ Reject
    \/ OnCreate
    \/ OnEnd
    \/ nnodes < MaxBefore /\ AddParagraph
    \/ nnodes < MaxBefore /\ OpenFigure
    \/ CloseFigure

SpecValidate == InitBind /\ [][NextValidate]_vars

\* run is called again on the document it has returned from.
Rerun ==
    /\ pc = "done"
    /\ passes < MaxPasses
    /\ pc' = "run"
    /\ run' = Locals(Tree)
    /\ passes' = passes + 1
    /\ UNCHANGED <<config, tree, pending, stack, numbered, attrib0>>

\* the blocks of the documents run is called on again
BlocksAgain ==
    { [NAME |-> "figure-caption", argument |-> a, id |-> <<>>] :
        a \in { <<>>, <<"1", ".", "2">>, <<"^", "1">>, <<"x">> } }
    \cup { [NAME |-> "figure-caption", argument |-> <<>>, id |-> <<"myid">>] }
    \cup { [NAME |-> "table-caption", argument |-> <<"<">>, id |-> <<>>] }
    \cup { [NAME |-> "caption", argument |-> <<"5">>, id |-> <<>>] }

NextAgain ==
    \/ BuildWith(BlocksAgain)
    \/ StartRun
    \/ Visit
    \/ Finish
    \/ Rerun

SpecAgain == Init /\ [][NextAgain]_vars

\* the children a figure written as raw HTML comes with: a figcaption with
\* text, a figcaption with a paragraph, an image
RawKinds == {"figcaption", "captioned", "img"}

\* the most children of a figure written as raw HTML
MaxRaw == 3

RawChildren == UNION {[1..n -> RawKinds] : n \in 1..MaxRaw}

\* the nodes the first n of the children take
RECURSIVE RawSize(_, _)
RawSize(kinds, n) ==
    IF n = 0 THEN 0
    ELSE RawSize(kinds, n - 1) + (IF kinds[n] = "captioned" THEN 2 ELSE 1)

\* The document holds a figure written as raw HTML that carries the hints run
\* reads and children of its own.
RawFigure(fig_type, prepend, kinds) ==
    /\ Idle
    /\ stack = <<>>
    /\ nnodes + 1 + RawSize(kinds, Len(kinds)) <= MaxNodes
    /\ LET f == nnodes + 1
           kid(i) == f + RawSize(kinds, i - 1) + 1
           kids == {kid(i) : i \in 1..Len(kinds)}
           ps == {kid(i) + 1 : i \in {k \in 1..Len(kinds) :
                                         kinds[k] = "captioned"}}
           kindOf(n) == kinds[CHOOSE i \in 1..Len(kinds) : kid(i) = n]
       IN  /\ nnodes' = f + RawSize(kinds, Len(kinds))
           /\ tag' = [n \in Nodes |->
                         IF n = f THEN "figure"
                         ELSE IF n \in ps THEN "p"
                         ELSE IF n \in kids
                         THEN (IF kindOf(n) = "img" THEN "img"
                               ELSE "figcaption")
                         ELSE tag[n]]
           /\ children' = [n \in Nodes |->
                              IF n = Root THEN Append(children[Root], f)
                              ELSE IF n = f
                              THEN [i \in 1..Len(kinds) |-> kid(i)]
                              ELSE IF n \in kids /\ kindOf(n) = "captioned"
                              THEN <<n + 1>>
                              ELSE children[n]]
           /\ text' = [n \in Nodes |->
                          IF n \in ps \/ (n \in kids /\ kindOf(n) = "figcaption")
                          THEN <<"txt">> ELSE text[n]]
           /\ attrib' = [attrib EXCEPT ![f] =
                            LET a == SetKey(NoAttrib, "__figure_type",
                                            <<fig_type>>)
                            IN  IF prepend
                                THEN SetKey(a, "__figure_prepend", <<"1">>)
                                ELSE a]
    /\ UNCHANGED <<config, tail, pending, stack, pc, run, numbered, attrib0,
                   passes>>

InitRaw == InitWith({c \in Configs : c.auto /\ c.auto_level = 0 /\ ~c.prepend})

NextRaw ==
    \/ \E t \in {"figure-caption", "caption"} : \E prepend \in BOOLEAN :
          \E kinds \in RawChildren : RawFigure(t, prepend, kinds)
    \/ StartRun
    \/ Visit
    \/ Finish

SpecRaw == InitRaw /\ [][NextRaw]_vars

----------------------------------------------------------------------------
(* Vocabulary of the properties *)

\* the elements of the document in document order
Order == IterFrom(Tree, Root)

\* the place of n in the sequence order
Pos(order, n) == CHOOSE i \in 1..Len(order) : order[i] = n

Figures == {n \in Nodes : tag[n] = "figure"}

\* the type hint the element had when run was called ("" for none)
Type0(n) ==
    IF "__figure_type" \in DOMAIN attrib0[n]
    THEN attrib0[n]["__figure_type"][1] ELSE ""

\* the manual number the element had when run was called (<<>> for none)
Manual0(n) ==
    IF "__figure_num" \in DOMAIN attrib0[n]
    THEN IntList(attrib0[n]["__figure_num"]) ELSE <<>>

HasLevel0(n) == "__figure_level" \in DOMAIN attrib0[n]

\* the figures update_tag has been called for
Numbered == {n \in Nodes : numbered[n] # <<>>}

InRun == pc \in {"run", "error", "done"}

\* every element has been visited and the clean up is still to come
LoopOver == pc = "run" /\ run.el = -1

\* a < b in lexicographic order, a proper prefix being smaller
LexLess(a, b) ==
    \/ Len(a) < Len(b) /\ SubSeq(b, 1, Len(a)) = a
    \/ \E i \in 1..Min(Len(a), Len(b)) :
          /\ SubSeq(a, 1, i - 1) = SubSeq(b, 1, i - 1)
          /\ a[i] < b[i]

\* the parent of an element of the document
ParentOf(n) ==
    CHOOSE p \in Nodes : \E i \in 1..Len(children[p]) : children[p][i] = n

\* the proper ancestors of n, nearest first
RECURSIVE AncestorsOf(_)
AncestorsOf(n) ==
    IF n = Root THEN <<>> ELSE <<ParentOf(n)>> \o AncestorsOf(ParentOf(n))

\* s with its last component plus one
Bump(s) == [s EXCEPT ![Len(s)] = @ + 1]

----------------------------------------------------------------------------
(* C1 *)

\* C1: in one pass, the ordinals given to the figures of one type are strictly
\* increasing, in lexicographic order, along the document order; so no ordinal
\* is given twice to a type.
C1_OrdinalsIncrease ==
    InRun =>
        LET order == Order
        IN  \A a \in Numbered : \A b \in Numbered :
                (Type0(a) = Type0(b) /\ Pos(order, a) < Pos(order, b))
                    => LexLess(numbered[a], numbered[b])

\* three numbered figures of one type: one with a manual number, one with a
\* level override, one without hints
C1_Witness ==
    /\ LoopOver
    /\ \E a \in Numbered : \E b \in Numbered : \E c \in Numbered :
          /\ Type0(a) = Type0(b) /\ Type0(b) = Type0(c)
          /\ Manual0(a) # <<>>
          /\ HasLevel0(b) /\ Manual0(b) = <<>>
          /\ ~HasLevel0(c) /\ Manual0(c) = <<>>

----------------------------------------------------------------------------
(* C2 *)

\* the loop is about to visit el, a figure of a numbered type with a manual
\* number that converts
ManualVisit(el) ==
    /\ pc = "run"
    /\ run.el = el
    /\ tag[el] = "figure"
    /\ "__figure_type" \in DOMAIN attrib[el]
    /\ Known(attrib[el]["__figure_type"][1])
    /\ "__figure_num" \in DOMAIN attrib[el]
    /\ IntList(attrib[el]["__figure_num"]) # <<-1>>

\* what the claim says of the visit of a figure with a manual number
ManualRule(el) ==
    LET M == IntList(attrib[el]["__figure_num"])
        t == attrib[el]["__figure_type"][1]
        C == IncrementCounter(run.counters[t], run.last[t], Len(M) - 1)
    IN  /\ Len(C) = Len(M)
        /\ IF \A i \in 1..Len(M) : M[i] >= C[i]
           THEN numbered'[el] = M /\ run'.counters[t] = M
           ELSE numbered'[el] = C /\ run'.counters[t] = C
        /\ \A i \in 1..Len(C) : run'.counters[t][i] >= C[i]

\* e1 is a figure of type t whose manual number became its ordinal
ManualAdopted(e1, t) ==
    /\ e1 \in Numbered
    /\ Type0(e1) = t
    /\ Manual0(e1) # <<>>
    /\ numbered[e1] = Manual0(e1)

\* the nearest same-type figure before el among the children of el's parent,
\* or -1
PrevSibling(el, t) ==
    LET kids == children[ParentOf(el)]
        j == CHOOSE k \in 1..Len(kids) : kids[k] = el
        c == {i \in 1..(j - 1) :
                 /\ tag[kids[i]] = "figure"
                 /\ "__figure_type" \in DOMAIN attrib[kids[i]]
                 /\ attrib[kids[i]]["__figure_type"][1] = t}
    IN  IF c = {} THEN -1 ELSE kids[CHOOSE i \in c : \A k \in c : k <= i]

\* the loop is about to visit el, a figure of a numbered type without hints
PlainVisit(el) ==
    /\ pc = "run"
    /\ run.el = el
    /\ el # Root
    /\ tag[el] = "figure"
    /\ "__figure_type" \in DOMAIN attrib[el]
    /\ Known(attrib[el]["__figure_type"][1])
    /\ "__figure_num" \notin DOMAIN attrib[el]
    /\ "__figure_level" \notin DOMAIN attrib[el]

\* the claim as it stands: what follows for the next sibling without hints
SiblingRule(el) ==
    LET t == attrib[el]["__figure_type"][1]
        e1 == PrevSibling(el, t)
    IN  (e1 # -1 /\ ManualAdopted(e1, t)) => numbered'[el] = Bump(numbered[e1])

\* C2 as it stands: the visit of a figure with manual number M leaves M as the
\* ordinal and the counter when M >= C at every position, C otherwise, and the
\* next same-type sibling without hints then gets M with its last component
\* plus one.
C2_Original ==
    [][ /\ \A el \in Nodes : ManualVisit(el) => ManualRule(el)
        /\ \A el \in Nodes : PlainVisit(el) => SiblingRule(el) ]_vars

\* the amended consequence: the next figure of the type to be numbered, when
\* it has no manual number and is numbered at the depth of M
SameDepthRule(el) ==
    LET t == attrib[el]["__figure_type"][1]
    IN  \A e1 \in Nodes :
            ( /\ ManualAdopted(e1, t)
              /\ run.counters[t] = numbered[e1]
              /\ Len(numbered'[el]) = Len(numbered[e1]) )
            => numbered'[el] = Bump(numbered[e1])

\* el is numbered by this step and had no manual number
NumberedPlain(el) ==
    /\ pc = "run"
    /\ run.el = el
    /\ numbered'[el] # <<>>
    /\ "__figure_num" \notin DOMAIN attrib[el]

\* C2, amended: the visit of a figure with manual number M leaves M as the
\* ordinal and the counter when M >= C at every position, C otherwise, and
\* never a counter below C; the next figure of the type to be numbered, when it
\* has no manual number and as many components as M, gets M with its last
\* component plus one.
C2_ManualNumber ==
    [][ /\ \A el \in Nodes : ManualVisit(el) => ManualRule(el)
        /\ \A el \in Nodes : NumberedPlain(el) => SameDepthRule(el) ]_vars

\* a manual number was taken over, and the next figure of the type, without
\* hints, got it with the last component plus one
C2_Witness ==
    /\ LoopOver
    /\ \E e1 \in Numbered : \E e2 \in Numbered :
          /\ ManualAdopted(e1, Type0(e1))
          /\ Type0(e2) = Type0(e1)
          /\ Manual0(e2) = <<>> /\ ~HasLevel0(e2)
          /\ numbered[e2] = Bump(numbered[e1])
    /\ \E e3 \in Numbered : Manual0(e3) # <<>> /\ numbered[e3] # Manual0(e3)

----------------------------------------------------------------------------
(* C3 *)

\* when run was called the ceiling was 0 and every figure was of a type with
\* a template and had no manual number, no level override and no id
C3_Plain ==
    /\ config.auto_level = 0
    /\ \A f \in Figures :
          /\ Known(Type0(f))
          /\ Manual0(f) = <<>>
          /\ ~HasLevel0(f)
          /\ "id" \notin DOMAIN attrib0[f]

\* the nearest figure of f's type among the proper ancestors of f, or -1
SameTypeAncestor(f) ==
    LET anc == AncestorsOf(f)
        c == {i \in 1..Len(anc) :
                 tag[anc[i]] = "figure" /\ Type0(anc[i]) = Type0(f)}
    IN  IF c = {} THEN -1 ELSE anc[CHOOSE i \in c : \A k \in c : i <= k]

\* the ordinal the claim gives f: its rank, in document order, among the
\* figures of its type under the same nearest same-type ancestor, after the
\* ordinal of that ancestor
RECURSIVE Expected(_, _)
Expected(order, f) ==
    LET a == SameTypeAncestor(f)
        k == Cardinality({g \in Figures :
                             /\ Type0(g) = Type0(f)
                             /\ SameTypeAncestor(g) = a
                             /\ Pos(order, g) <= Pos(order, f)})
    IN  (IF a = -1 THEN <<>> ELSE Expected(order, a)) \o <<k>>

\* the id update_tag makes of a type and an ordinal
IdOf(t, ordinal) ==
    <<"__", t, "_">>
    \o Join([i \in 1..Len(ordinal) |-> IntToStr(ordinal[i])], "_")

\* C3: with ceiling 0, only figures of types with a template and no manual
\* number, level override or id, the pass raises no error and gives each
\* figure, none left out, the ordinal P.k and the id __{type}_{P_k}: k its rank
\* among the figures of its type under its nearest same-type ancestor, P that
\* ancestor's ordinal (nothing for a figure without such an ancestor).
C3_PlainNumbering ==
    (InRun /\ C3_Plain) =>
        /\ pc # "error"
        /\ LET order == Order
           IN  \A f \in Figures :
                  (numbered[f] # <<>> \/ LoopOver \/ pc = "done") =>
                     /\ numbered[f] = Expected(order, f)
                     /\ "id" \in DOMAIN attrib[f]
                     /\ attrib[f]["id"] = IdOf(Type0(f), Expected(order, f))

\* a finished pass over such a tree with figures of two types, one of them
\* nested in a figure of its type
C3_Witness ==
    /\ pc = "done"
    /\ C3_Plain
    /\ \E a \in Figures : \E b \in Figures : \E c \in Figures :
          /\ SameTypeAncestor(b) = a
          /\ numbered[b] = <<1, 1>>
          /\ numbered[c] = <<1>>
          /\ Type0(c) # Type0(a)

----------------------------------------------------------------------------
(* C4 *)

\* with ceiling 1, a figure inside a numbered figure of its type is not
\* numbered
OutermostOnly(f) ==
    LET a == SameTypeAncestor(f)
    IN  (config.auto_level = 1 /\ a # -1 /\ numbered[a] # <<>>)
            => numbered[f] = <<>>

----------------------------------------------------------------------------
(* C5 *)

Transient ==
    {"__figure_type", "__figure_level", "__figure_num", "__figure_prepend"}

\* C5: after a pass that ran to its end, no figure carries a transient
\* attribute.
C5_NoTransient ==
    pc = "done" => \A f \in Figures : DOMAIN attrib[f] \cap Transient = {}

\* what is left after a pass that ran to its end is the manual number of a
\* figure of a type without a template, and nothing else
C5_OnlyManualOfEmptyTemplate ==
    pc = "done" =>
        \A f \in Figures :
            /\ DOMAIN attrib[f] \cap Transient \subseteq {"__figure_num"}
            /\ "__figure_num" \in DOMAIN attrib[f] =>
                  /\ ~Known(Type0(f))
                  /\ attrib[f]["__figure_num"] = attrib0[f]["__figure_num"]

----------------------------------------------------------------------------
(* C6 *)

\* a figcaption child of f starts with a p that starts with a prefix span
HasPrefix(f) ==
    \E i \in 1..Len(children[f]) :
        LET c == children[f][i]
        IN  /\ tag[c] = "figcaption"
            /\ children[c] # <<>>
            /\ tag[children[c][1]] = "p"
            /\ children[children[c][1]] # <<>>
            /\ tag[children[children[c][1]][1]] = "span"

\* the types registered with an empty template
EmptyTemplate(t) == t \in DOMAIN fig_types /\ fig_types[t] = <<>>

----------------------------------------------------------------------------
(* C7 *)

\* the tree run was called on, the figures of the other types than A being
\* no figures
Projected(A) ==
    [Tree EXCEPT
        !.tag = [n \in Nodes |->
                    IF tag[n] = "figure" /\ Type0(n) \notin {A, ""}
                    THEN "div" ELSE tag[n]],
        !.attrib = [n \in Nodes |->
                       IF tag[n] = "figure" /\ Type0(n) \notin {A, ""}
                       THEN NoAttrib ELSE attrib0[n]]]

\* the loop of run from el on: the tree at its end and the ordinals given
RECURSIVE Pass(_, _, _, _)
Pass(T, r, el, nums) ==
    IF el = -1 THEN [T |-> T, numbered |-> nums]
    ELSE LET b == LoopBody(T, r, config.auto_level, el)
             n == IF b.num # <<>> THEN [nums EXCEPT ![el] = b.num] ELSE nums
         IN  IF b.err THEN [T |-> b.T, numbered |-> n]
             ELSE Pass(b.T, b.run, NextEl(b.T, el), n)

\* C7: when the pass has ended, a figure of type A has the ordinal and the id
\* the pass gives it on the tree in which the figures of the other types are
\* no figures.
C7_Independent ==
    (pc \in {"done", "error"}) =>
        \A A \in {t \in DOMAIN fig_types : Known(t)} :
            LET T0 == Projected(A)
                ref == Pass(T0, Locals(T0), Root, [n \in Nodes |-> <<>>])
            IN  \A f \in Figures :
                    Type0(f) = A =>
                        /\ numbered[f] = ref.numbered[f]
                        /\ "id" \in DOMAIN attrib[f]
                              <=> "id" \in DOMAIN ref.T.attrib[f]
                        /\ "id" \in DOMAIN attrib[f]
                              => attrib[f]["id"] = ref.T.attrib[f]["id"]

\* the same for the passes that ran to their end
C7_IndependentWhenDone ==
    pc = "done" =>
        \A A \in {t \in DOMAIN fig_types : Known(t)} :
            LET T0 == Projected(A)
                ref == Pass(T0, Locals(T0), Root, [n \in Nodes |-> <<>>])
            IN  \A f \in Figures :
                    Type0(f) = A => numbered[f] = ref.numbered[f]

----------------------------------------------------------------------------
(* C8 *)

\* the step is the creation of the pending block
Creates ==
    /\ pc = "build"
    /\ pending.NAME # NoBlock.NAME
    /\ pending.block.valid
    /\ pending' = NoBlock

\* the children of el that are figcaptions, after the step
Captions1(el) ==
    {i \in 1..Len(children'[el]) : tag'[children'[el][i]] = "figcaption"}

\* s without the element at place i
Without(s, i) == SubSeq(s, 1, i - 1) \o SubSeq(s, i + 1, Len(s))

\* C8: on_create takes the parent's last child as the figure exactly when it
\* is a figure without a figcaption child, and the parent keeps its children;
\* otherwise the figure is a new element that takes the place of the last
\* child, which moves into it, or comes last when there was none.  The figure
\* then has exactly one figcaption child, the rest of its children is as
\* before, and the children of the other elements are unchanged.
C8_ReuseOrWrap ==
    [][ Creates =>
          LET parent == Container
              kids == children[parent]
              child == IF kids # <<>> THEN kids[Len(kids)] ELSE -1
              fig == Last(stack').el
              caps == Captions1(fig)
              cap == CHOOSE i \in caps : TRUE
              reusable ==
                  /\ child # -1
                  /\ tag[child] = "figure"
                  /\ \A i \in 1..Len(children[child]) :
                        tag[children[child][i]] # "figcaption"
          IN  /\ Cardinality(caps) = 1
              /\ tag'[fig] = "figure"
              /\ IF reusable
                 THEN /\ fig = child
                      /\ children'[parent] = kids
                      /\ Without(children'[fig], cap) = children[fig]
                 ELSE /\ tag[fig] = ""
                      /\ children'[parent]
                            = SubSeq(kids, 1, Len(kids) - 1) \o <<fig>>
                      /\ Without(children'[fig], cap)
                            = (IF child # -1 THEN <<child>> ELSE <<>>)
              /\ \A n \in Nodes \ {parent, fig} : children'[n] = children[n]
      ]_vars

\* a figure that was there before got its caption, and a figure with a caption
\* was wrapped in a new figure
C8_Witness ==
    /\ \E f \in Figures : \E i \in 1..Len(children[f]) :
          /\ tag[children[f][i]] = "figcaption"
          /\ children[f][i] > f + 1
    /\ \E g \in Figures : \E i \in 1..Len(children[g]) :
          LET h == children[g][i]
          IN  /\ h < g
              /\ tag[h] = "figure"
              /\ \E k \in 1..Len(children[h]) :
                    tag[children[h][k]] = "figcaption"

----------------------------------------------------------------------------
(* C9 *)

\* C9: the figcaption is the first child of the figure when the argument
\* starts with '<', the last when it starts with '>', and where the prepend
\* option says otherwise; a '<' caption after a paragraph gives a figure with
\* the children figcaption, paragraph; with auto the figure gets the prepend
\* marker exactly when the caption goes first, and never without.
C9_CaptionPlace ==
    [][ Creates =>
          LET a == pending.argument
              first == IF a # <<>> /\ Head(a) = "<" THEN TRUE
                       ELSE IF a # <<>> /\ Head(a) = ">" THEN FALSE
                       ELSE config.prepend
              kids == children[Container]
              child == IF kids # <<>> THEN kids[Len(kids)] ELSE -1
              fig == Last(stack').el
              cap == Last(stack').container
              kids1 == children'[fig]
          IN  /\ tag'[cap] = "figcaption"
              /\ IF first THEN kids1[1] = cap ELSE kids1[Len(kids1)] = cap
              /\ (a # <<>> /\ Head(a) = "<" /\ child # -1 /\ tag[child] = "p")
                    => kids1 = <<cap, child>>
              /\ "__figure_prepend" \in DOMAIN attrib'[fig]
                    <=> (config.auto /\ first)
      ]_vars

\* with auto and without the prepend option, a block whose argument set
\* prepend wrapped a paragraph: the figcaption comes first and the figure has
\* the marker
C9_Witness ==
    /\ config.auto /\ ~config.prepend
    /\ stack # <<>>
    /\ Last(stack).kind = "block"
    /\ Last(stack).block.prepend
    /\ LET fig == Last(stack).el
       IN  /\ Len(children[fig]) = 2
           /\ children[fig][1] = Last(stack).container
           /\ tag[children[fig][2]] = "p"
           /\ "__figure_prepend" \in DOMAIN attrib[fig]

----------------------------------------------------------------------------
(* C10 *)

\* a positive integer in decimal
IsInt(t) ==
    /\ t # <<>>
    /\ IsNonZeroDigit(t[1])
    /\ \A i \in 1..Len(t) : IsDigit(t[i])

\* the numeric token: integers with dots between them, or a caret and an
\* integer
IsToken(t) ==
    \/ LET parts == Split(t, ".")
       IN  \A i \in 1..Len(parts) : IsInt(parts[i])
    \/ t # <<>> /\ Head(t) = "^" /\ IsInt(Tail(t))

\* nothing but white space is left of the argument once the direction marker
\* and the numeric token, if there, are taken off
NothingRemains(a) ==
    LET r == IF a # <<>> /\ Head(a) \in {"<", ">"} THEN LStrip(Tail(a)) ELSE a
    IN  \/ LStrip(r) = <<>>
        \/ \E k \in 1..Len(r) :
              /\ IsToken(SubSeq(r, 1, k))
              /\ k < Len(r) => r[k + 1] = " "
              /\ LStrip(SubSeq(r, k + 1, Len(r))) = <<>>

\* C10: on_validate returns False exactly when something else than white space
\* is left of the argument without its direction marker and numeric token.
C10_RejectsExactly ==
    pending.NAME # NoBlock.NAME =>
        (pending.block.valid <=> NothingRemains(pending.argument))

\* on_validate returns True whenever nothing is left
C10_AcceptsTokens ==
    (pending.NAME # NoBlock.NAME /\ NothingRemains(pending.argument))
        => pending.block.valid

\* a rejected block leaves the tree as it was
C10_RejectLeavesTree ==
    [][ (pc = "build" /\ pending.NAME # NoBlock.NAME /\ ~pending.block.valid)
            => tree' = tree ]_vars

----------------------------------------------------------------------------
(* C11 *)

\* C11: a call of run on the document a call of run has returned from changes
\* no tag, child, attribute, text or tail of any element, creates no element
\* and raises no exception.
C11_SecondPassNoOp ==
    [][ passes >= 2 => (tree' = tree /\ pc' # "error") ]_vars

\* the second call has returned, on a document in which the first call
\* numbered a figure with a manual number and left a figure of a type without
\* template alone
C11_Witness ==
    /\ passes = 2
    /\ pc = "done"
    /\ \E f \in Figures : Manual0(f) # <<>> /\ numbered[f] # <<>> /\ HasPrefix(f)
    /\ \E g \in Figures : EmptyTemplate(Type0(g))

----------------------------------------------------------------------------
(* C12 *)

\* the step is the end of the innermost open block
Ends ==
    /\ Idle
    /\ stack # <<>>
    /\ Last(stack).kind = "block"
    /\ Len(stack') < Len(stack)

\* k ones with dots between them
Ones(k) == [i \in 1..(2 * k - 1) |-> IF i % 2 = 1 THEN "1" ELSE "."]

\* the ordinal with an underscore for every dot
Underscored(ordinal) ==
    [i \in 1..Len(ordinal) |-> IF ordinal[i] = "." THEN "_" ELSE ordinal[i]]

\* after the step, the figcaption of fig starts with a p that starts with a
\* prefix span with the given text
PrefixedWith(fig, cap, value) ==
    /\ children'[cap] # <<>>
    /\ tag'[children'[cap][1]] = "p"
    /\ children'[children'[cap][1]] # <<>>
    /\ LET span == children'[children'[cap][1]][1]
       IN  /\ tag'[span] = "span"
           /\ attrib'[span] = SetKey(NoAttrib, "class", <<"caption-prefix">>)
           /\ text'[span] = value

\* what on_end does to a figure given the ordinal as a str
NumberedAs(self, fig, ordinal) ==
    /\ pc' # "error"
    /\ "id" \in DOMAIN attrib'[fig]
    /\ attrib'[fig]["id"] =
          (IF "id" \in DOMAIN attrib[fig] THEN attrib[fig]["id"]
           ELSE <<"__", self.NAME, "_">> \o Underscored(ordinal))
    /\ PrefixedWith(fig, self.caption, Format(fig_types[self.NAME], ordinal))

\* the claim on one end of a block
EndRule(self, fig) ==
    IF ~self.auto /\ fig_types[self.NAME] # <<>> /\ self.level # <<>>
    THEN /\ StrToInt(self.level) >= 1
         /\ NumberedAs(self, fig, Ones(StrToInt(self.level)))
    ELSE IF ~self.auto /\ fig_types[self.NAME] # <<>> /\ self.fig_num # <<>>
    THEN NumberedAs(self, fig, self.fig_num)
    ELSE tree' = tree /\ pc' # "error"

\* C12: without auto and with a prefix template, on_end gives the figure the
\* ordinal of k ones for a level override k, the manual number as it is
\* otherwise, and from it the id, when there is none, and the caption prefix;
\* with neither level nor manual number, with an empty template, or with auto,
\* it changes nothing.
C12_ManualMode ==
    [][ Ends => EndRule(Last(stack).block, Last(stack).el) ]_vars

\* the same for the blocks whose level is an integer
C12_ManualModeOfIntegerLevels ==
    [][ (Ends /\ (Last(stack).block.level = <<>>
                  \/ IsInt(Last(stack).block.level)))
            => EndRule(Last(stack).block, Last(stack).el) ]_vars

----------------------------------------------------------------------------
(* C13 *)

\* the nearest numbered figure of f's type among the proper ancestors of f,
\* or -1
NumberedAncestor(f) ==
    LET anc == AncestorsOf(f)
        c == {i \in 1..Len(anc) :
                 /\ tag[anc[i]] = "figure"
                 /\ Type0(anc[i]) = Type0(f)
                 /\ numbered[anc[i]] # <<>>}
    IN  IF c = {} THEN -1 ELSE anc[CHOOSE i \in c : \A k \in c : i <= k]

\* C13: the ordinal of a numbered figure has one component more than the
\* ordinal of its nearest numbered ancestor of the same type.
C13_OneMoreComponent ==
    InRun =>
        \A f \in Numbered :
            LET a == NumberedAncestor(f)
            IN  a # -1 => Len(numbered[f]) = Len(numbered[a]) + 1

----------------------------------------------------------------------------
(* C14 *)

\* the figures without type hint when run was called
Untyped == {f \in Figures : Type0(f) = ""}

\* the tree run was called on, the figures without type hint being no figures
WithoutUntyped ==
    [Tree EXCEPT
        !.tag = [n \in Nodes |-> IF n \in Untyped THEN "div" ELSE tag[n]],
        !.attrib = attrib0]

\* C14: the pass raises no exception, leaves the figures without type hint as
\* they are, and gives every figure the ordinal it gives it in the tree where
\* the figures without type hint are no figures.
C14_UntypedIgnored ==
    InRun =>
        /\ pc # "error"
        /\ \A f \in Untyped : attrib[f] = attrib0[f]
        /\ pc = "done" =>
              LET T0 == WithoutUntyped
                  ref == Pass(T0, Locals(T0), Root, [n \in Nodes |-> <<>>])
              IN  \A f \in Figures : numbered[f] = ref.numbered[f]

\* an exception ends the pass only at a figure of a type with template,
\* without manual number, that has a figure without type hint above it
C14_OnlyErrorBelowUntyped ==
    pc = "error" =>
        /\ tag[run.el] = "figure"
        /\ Known(Type0(run.el))
        /\ Manual0(run.el) = <<>>
        /\ LET anc == AncestorsOf(run.el)
           IN  \E i \in 1..Len(anc) : anc[i] \in Untyped

\* without exception the claim holds
C14_UntypedIgnoredWhenDone ==
    InRun =>
        /\ \A f \in Untyped : attrib[f] = attrib0[f]
        /\ pc = "done" =>
              LET T0 == WithoutUntyped
                  ref == Pass(T0, Locals(T0), Root, [n \in Nodes |-> <<>>])
              IN  \A f \in Figures : numbered[f] = ref.numbered[f]

----------------------------------------------------------------------------
(* C15 *)

\* the figures of g's type among the proper ancestors of g
SameTypeAncestors(g) ==
    LET anc == AncestorsOf(g)
    IN  {anc[i] : i \in {k \in 1..Len(anc) :
                            /\ tag[anc[k]] = "figure"
                            /\ Type0(anc[k]) = Type0(g)}}

\* the step visits a figure and numbers it
Numbers ==
    /\ pc = "run"
    /\ run.el # -1
    /\ tag[run.el] = "figure"
    /\ numbered[run.el] = <<>>
    /\ numbered'[run.el] # <<>>

\* the figure the step visits is inside a figure of its type that was not
\* numbered; a figure is visited before the figures inside it, and a visited
\* figure of a type with template is not numbered only for the ceiling
InsideAbandoned == \E a \in SameTypeAncestors(run.el) : numbered[a] = <<>>

\* the step visits a figure of a type with template and does not number it
Abandons ==
    /\ pc = "run"
    /\ run.el # -1
    /\ tag[run.el] = "figure"
    /\ "__figure_type" \in DOMAIN attrib[run.el]
    /\ Known(attrib[run.el]["__figure_type"][1])
    /\ pc' = "run"
    /\ numbered'[run.el] = <<>>

----------------------------------------------------------------------------
(* C16 *)

\* the figures that had an id when run was called
WithId == {f \in Figures : "id" \in DOMAIN attrib0[f]}

\* the tree run was called on, no figure having an id
WithoutIds ==
    [Tree EXCEPT
        !.attrib = [n \in Nodes |->
                       IF n \in WithId THEN DelKey(attrib0[n], "id")
                       ELSE attrib0[n]]]

\* C16: a figure that had an id keeps it through the pass, and when the pass
\* has ended every figure has the ordinal the pass gives it in the tree where
\* no figure has an id, a numbered figure with an id having its prefix.
C16_IdKept ==
    InRun =>
        /\ \A f \in WithId :
              /\ "id" \in DOMAIN attrib[f]
              /\ attrib[f]["id"] = attrib0[f]["id"]
        /\ pc \in {"done", "error"} =>
              LET T0 == WithoutIds
                  ref == Pass(T0, Locals(T0), Root, [n \in Nodes |-> <<>>])
              IN  /\ \A f \in Figures : numbered[f] = ref.numbered[f]
                  /\ \A f \in WithId : numbered[f] # <<>> => HasPrefix(f)

\* a finished pass that numbered a figure with an id of its own and, after
\* it, a figure of its type
C16_Witness ==
    /\ pc = "done"
    /\ \E f \in WithId : \E g \in Figures \ WithId :
          /\ numbered[f] # <<>>
          /\ numbered[g] # <<>>
          /\ HasPrefix(f)
          /\ attrib[f]["id"] = <<"myid">>
          /\ Type0(g) = Type0(f)
          /\ Pos(Order, f) < Pos(Order, g)

----------------------------------------------------------------------------
(* C17 *)

\* the children of el in the order update_tag scans them
Scan(el) ==
    IF "__figure_prepend" \in DOMAIN attrib[el] THEN children[el]
    ELSE Reverse(children[el])

\* the places of the figcaptions in the scan
CaptionsAt(el) ==
    {i \in 1..Len(Scan(el)) : tag[Scan(el)[i]] = "figcaption"}

\* the step puts a prefix span in front of the content of the figcaption c
Prefixed(c) ==
    /\ children'[c] # <<>>
    /\ tag'[children'[c][1]] = "p"
    /\ children'[children'[c][1]] # <<>>
    /\ LET span == children'[children'[c][1]][1]
       IN  /\ tag'[span] = "span"
           /\ span > nnodes

\* the step leaves the child c of the figure and what is in it as they are
Untouched(c) ==
    /\ children'[c] = children[c]
    /\ text'[c] = text[c]
    /\ tail'[c] = tail[c]
    /\ attrib'[c] = attrib[c]
    /\ \A i \in 1..Len(children[c]) :
          LET k == children[c][i]
          IN  /\ children'[k] = children[k]
              /\ text'[k] = text[k]
              /\ tail'[k] = tail[k]

\* the step numbers a figure of a type with a template that has a figcaption
Prefixes ==
    /\ Numbers
    /\ fig_types[Type0(run.el)] # <<>>
    /\ CaptionsAt(run.el) # {}

\* C17: the step that numbers a figure puts the prefix span into the first
\* figcaption child in scan order and leaves every other child of the figure
\* as it is, however many figcaption children the figure has.
C17_OneCaption ==
    [][ Prefixes =>
          LET scan == Scan(run.el)
              first == CHOOSE i \in CaptionsAt(run.el) :
                          \A j \in CaptionsAt(run.el) : i <= j
          IN  /\ Prefixed(scan[first])
              /\ children'[run.el] = children[run.el]
              /\ \A i \in 1..Len(scan) : i # first => Untouched(scan[i])
      ]_vars

\* the same for the figures with one figcaption child
C17_OneCaptionOfOne ==
    [][ (Prefixes /\ Cardinality(CaptionsAt(run.el)) = 1) =>
          LET scan == Scan(run.el)
              first == CHOOSE i \in CaptionsAt(run.el) : TRUE
          IN  /\ Prefixed(scan[first])
              /\ children'[run.el] = children[run.el]
              /\ \A i \in 1..Len(scan) : i # first => Untouched(scan[i])
      ]_vars

\* the step puts the prefix span into every figcaption child of the figure
C17_EveryCaption ==
    [][ Prefixes =>
          LET scan == Scan(run.el)
          IN  /\ children'[run.el] = children[run.el]
              /\ \A i \in 1..Len(scan) :
                    IF i \in CaptionsAt(run.el) THEN Prefixed(scan[i])
                    ELSE Untouched(scan[i])
      ]_vars

----------------------------------------------------------------------------
(* C18 *)

\* C18: the __figure_num on_create stamps is made of positive integers with
\* dots between them, the __figure_level it stamps is one positive integer, and
\* the conversions of run to integers succeed on both.
C18_HintsAreIntegers ==
    \A f \in Nodes :
        /\ "__figure_num" \in DOMAIN attrib[f] =>
              LET parts == Split(attrib[f]["__figure_num"], ".")
              IN  /\ \A i \in 1..Len(parts) : IsInt(parts[i])
                  /\ IntList(attrib[f]["__figure_num"]) # <<-1>>
        /\ "__figure_level" \in DOMAIN attrib[f] =>
              /\ IsInt(attrib[f]["__figure_level"])
              /\ StrToInt(attrib[f]["__figure_level"]) # -1

----------------------------------------------------------------------------
(* C19 *)

\* C19: every ordinal the pass gives has components of at least 1 only, also
\* that of the first figure of a type when it has a level override or a manual
\* number.
C19_NoZeroComponent ==
    InRun =>
        \A f \in Numbered :
            \A i \in 1..Len(numbered[f]) : numbered[f][i] >= 1

\* the same for the figures without level override
C19_NoZeroWithoutLevel ==
    InRun =>
        \A f \in Numbered :
            (\A g \in Figures : Type0(g) = Type0(f) => ~HasLevel0(g))
                => \A i \in 1..Len(numbered[f]) : numbered[f][i] >= 1

----------------------------------------------------------------------------
(* C20 *)

\* the counter of every registered type has one entry more than the type's
\* last depth
CounterLength ==
    \A t \in DOMAIN fig_types : Len(run.counters[t]) = run.last[t] + 1

\* C20: from the start of the pass on and after every node visited, the counter
\* of every registered type has as many entries as the type's last depth plus
\* one, and the ordinal a figure is given is the whole counter of its type.
C20_CounterLength ==
    [][ /\ pc' \in {"run", "done", "error"} => CounterLength'
        /\ Numbers => numbered'[run.el] = run'.counters[run'.last_type]
      ]_vars

\* a finished pass that numbered a figure two deep, then a figure of the same
\* type at depth 0, which cut the counter, and a figure with a manual number
C20_Witness ==
    /\ pc = "done"
    /\ CounterLength
    /\ \E f \in Numbered : \E g \in Numbered : \E h \in Numbered :
          /\ Type0(f) = Type0(g)
          /\ Len(numbered[f]) = 2
          /\ Len(numbered[g]) = 1
          /\ Pos(Order, f) < Pos(Order, g)
          /\ run.counters[Type0(g)] = numbered[g]
          /\ Manual0(h) # <<>>

====
